---------------------------- MODULE Spec2Model ----------------------------
(***************************************************************************)
(* A model of pptx_tools.fill_style.PPTXFillStyle and                      *)
(* pptx_tools.font_style.PPTXFontStyle.                                    *)
(*                                                                         *)
(* Python values are tagged tuples: <<"None">>, <<"bool", TRUE>>,          *)
(* <<"str", "Arial">>, <<"int", 18>>, <<"RGBColor", 1>>, ...  so that two  *)
(* values of different Python types are comparable and unequal.            *)
(*                                                                         *)
(* The python-pptx objects the helpers write to (FillFormat, Font) are     *)
(* external: they are modelled as records of the fields the helpers read   *)
(* and assign, together with the list of calls made on the FillFormat.     *)
(***************************************************************************)
EXTENDS Integers, Sequences, FiniteSets, TLC

VARIABLES
    fill,     \* a PPTXFillStyle object
    style,    \* a PPTXFontStyle object
    font,     \* the target pptx Font (font.fill is its FillFormat)
    source,   \* the pptx Font that copy_font copies from
    old,      \* fill, style and font as they were before the last operation
    op,       \* the last operation
    args,     \* the arguments of the last operation
    err,      \* the exception the last operation raised, or None
    calls     \* the calls the last operation made on the target FillFormat

vars == <<fill, style, font, source, old, op, args, err, calls>>

---------------------------------------------------------------------------
(* Bounds *)

\* RGB colors and theme colors are numbered 1..MaxColor
MaxColor == 2
\* font sizes (in points) on a style are 1..MaxSize
MaxSize == 2

---------------------------------------------------------------------------
(* Python values *)

None == <<"None">>
True == <<"bool", TRUE>>
False == <<"bool", FALSE>>
Str(s) == <<"str", s>>
PyInt(n) == <<"int", n>>
Tuple3(n) == <<"tuple", n>>
RGBColor(n) == <<"RGBColor", n>>
IsTuple(v) == v[1] = "tuple"
\* RGBColor(*value) for a tuple value
RGBColorOfTuple(v) == RGBColor(v[2])
\* an MSO_THEME_COLOR_INDEX member (an EnumValue)
ThemeColor(n) == <<"MSO_THEME_COLOR_INDEX", n>>
\* an MSO_PATTERN_TYPE member
PatternType(n) == <<"MSO_PATTERN_TYPE", n>>
\* a brightness, in tenths
Brightness(n) == <<"float", n, 10>>
\* Python truth value of an optional number
Truthy(v) == v # None /\ v[2] # 0

RGBColors == {RGBColor(n) : n \in 1..MaxColor}
RGBTuples == {Tuple3(n) : n \in 1..MaxColor}
ThemeColors == {ThemeColor(n) : n \in 1..MaxColor}
Brightnesses == {Brightness(0), Brightness(5)}
Patterns == {PatternType(1)}

\* the sentinel of PPTXFontStyle.set
_DO_NOT_CHANGE == <<"_DO_NOT_CHANGE">>

\* the reset-to-default sentinel of pptx_tools.utils
_USE_DEFAULT == <<"_USE_DEFAULT">>

NOFILL == <<"FillType", "NOFILL">>
SOLID == <<"FillType", "SOLID">>
PATTERNED == <<"FillType", "PATTERNED">>
GRADIENT == <<"FillType", "GRADIENT">>
FillType == {NOFILL, SOLID, PATTERNED, GRADIENT}

---------------------------------------------------------------------------
(* PPTXFillStyle *)

PPTXFillStyle_init ==
    [fill_type |-> SOLID,
     fore_color_rgb |-> None,
     fore_color_mso_theme |-> None,
     fore_color_brightness |-> None,
     back_color_rgb |-> None,
     back_color_mso_theme |-> None,
     back_color_brightness |-> None,
     pattern |-> None]

\* @fore_color_rgb.setter
set_fore_color_rgb(self, value) ==
    LET s1 == IF value # None
              THEN [self EXCEPT !.fore_color_mso_theme = None]
              ELSE self
    IN  IF IsTuple(value)
        THEN [s1 EXCEPT !.fore_color_rgb = RGBColorOfTuple(value)]
        ELSE [s1 EXCEPT !.fore_color_rgb = value]

\* @fore_color_mso_theme.setter
set_fore_color_mso_theme(self, value) ==
    LET s1 == IF value # None
              THEN [self EXCEPT !.fore_color_rgb = None]
              ELSE self
    IN  [s1 EXCEPT !.fore_color_mso_theme = value]

\* @back_color_rgb.setter: it clears _fore_color_mso_theme
set_back_color_rgb(self, value) ==
    LET s1 == IF value # None
              THEN [self EXCEPT !.fore_color_mso_theme = None]
              ELSE self
    IN  IF IsTuple(value)
        THEN [s1 EXCEPT !.back_color_rgb = RGBColorOfTuple(value)]
        ELSE [s1 EXCEPT !.back_color_rgb = value]

\* @back_color_mso_theme.setter
set_back_color_mso_theme(self, value) ==
    LET s1 == IF value # None
              THEN [self EXCEPT !.back_color_rgb = None]
              ELSE self
    IN  [s1 EXCEPT !.back_color_mso_theme = value]

---------------------------------------------------------------------------
(* The target FillFormat.  A step of a write is a record                   *)
(* [fill, calls, err]: the FillFormat, the calls made on it so far and the *)
(* exception raised, after which nothing more is executed.                 *)

FreshFill ==
    [type |-> None,
     fore_color |-> None,
     fore_brightness |-> None,
     back_color |-> None,
     back_brightness |-> None,
     pattern |-> None]

ValueError == <<"ValueError", "No valid rgb_color set">>
AttributeError == <<"AttributeError", "'NoneType' object has no attribute 'pt'">>

\* fill.background()
background(t) ==
    [t EXCEPT !.fill.type = <<"MSO_FILL_TYPE", "BACKGROUND">>,
              !.calls = Append(@, <<"background">>)]

\* fill.solid()
solid(t) ==
    [t EXCEPT !.fill.type = <<"MSO_FILL_TYPE", "SOLID">>,
              !.calls = Append(@, <<"solid">>)]

\* fill.patterned()
patterned(t) ==
    [t EXCEPT !.fill.type = <<"MSO_FILL_TYPE", "PATTERNED">>,
              !.calls = Append(@, <<"patterned">>)]

\* fill.<field> = value, for fore_color (.rgb or .theme_color), back_color, the
\* brightnesses and pattern
assign(t, field, value) ==
    [t EXCEPT !.fill[field] = value,
              !.calls = Append(@, <<field, value>>)]

raise(t, e) == [t EXCEPT !.err = e]

_write_fore_color(self, t) ==
    LET t1 == IF self.fore_color_rgb # None
              THEN assign(t, "fore_color", self.fore_color_rgb)
              ELSE IF self.fore_color_mso_theme # None
              THEN assign(t, "fore_color", self.fore_color_mso_theme)
              ELSE raise(t, ValueError)
    IN  IF t1.err # None THEN t1
        ELSE IF Truthy(self.fore_color_brightness)
        THEN assign(t1, "fore_brightness", self.fore_color_brightness)
        ELSE t1

_write_back_color(self, t) ==
    LET t1 == IF self.back_color_rgb # None
              THEN assign(t, "back_color", self.back_color_rgb)
              ELSE IF self.back_color_mso_theme # None
              THEN assign(t, "back_color", self.back_color_mso_theme)
              ELSE raise(t, ValueError)
    IN  IF t1.err # None THEN t1
        ELSE IF Truthy(self.back_color_brightness)
        THEN assign(t1, "back_brightness", self.back_color_brightness)
        ELSE t1

\* _write_patterned writing both colors without asking whether they are set
_write_patterned_unguarded(self, t) ==
    LET t1 == patterned(t)
        t2 == IF self.pattern # None
              THEN assign(t1, "pattern", self.pattern)
              ELSE t1
        t3 == _write_fore_color(self, t2)
    IN  IF t3.err # None THEN t3 ELSE _write_back_color(self, t3)

\* the FillType.PATTERNED branch of _write_fill_type
_write_patterned(self, t) ==
    LET t1 == patterned(t)
        t2 == IF self.pattern # None
              THEN assign(t1, "pattern", self.pattern)
              ELSE t1
        t3 == IF self.fore_color_rgb # None \/ self.fore_color_mso_theme # None
              THEN _write_fore_color(self, t2)
              ELSE t2
    IN  IF t3.err # None THEN t3
        ELSE IF self.back_color_rgb # None \/ self.back_color_mso_theme # None
        THEN _write_back_color(self, t3)
        ELSE t3

\* _write_solid marking the target solid before it looks for a fore color
_write_solid_early(self, t) ==
    IF self.fore_color_rgb # None \/ self.fore_color_mso_theme # None
    THEN _write_fore_color(self, solid(t))
    ELSE solid(t)

\* the FillType.SOLID branch of _write_fill_type
_write_solid(self, t) ==
    IF self.fore_color_rgb # None \/ self.fore_color_mso_theme # None
    THEN _write_fore_color(self, solid(t))
    ELSE t

_write_fill_type(self, t) ==
    IF self.fill_type = NOFILL THEN background(t)
    ELSE IF self.fill_type = SOLID THEN _write_solid(self, t)
    ELSE IF self.fill_type = PATTERNED THEN _write_patterned(self, t)
    ELSE t

write_fill(self, t) ==
    IF self.fill_type # None THEN _write_fill_type(self, t) ELSE t

---------------------------------------------------------------------------
(* PPTXFontStyle *)

MSO_LANGUAGE_ID(m) == <<"MSO_LANGUAGE_ID", m>>
\* a pptx Length, in EMU
Length(emu) == <<"Length", emu>>
\* a Python float, the double nearest to num / den
Float(num, den) == <<"float", num, den>>

EMUS_PER_PT == 12700

\* int(x * 12700) for the float x = emu / 12700.0, in IEEE-754 double arithmetic:
\* exact when emu is a whole number of points; 14351 / 12700.0 * 12700 is
\* 14350.999999999998, which int() truncates
IntOfFloatTimesEmusPerPt(x) ==
    IF x[2] % EMUS_PER_PT = 0 THEN x[2]
    ELSE IF x[2] = 14351 THEN 14350
    ELSE x[2]

\* pptx.util.Pt(points): Length(int(points * 12700))
Pt(points) ==
    IF points[1] = "int"
    THEN Length(points[2] * EMUS_PER_PT)
    ELSE Length(IntOfFloatTimesEmusPerPt(points))

\* Length.pt: self / 12700.0
pt(length) == Float(length[2], EMUS_PER_PT)

\* the marker of an attribute that is not in the instance's __dict__, so that
\* reading it finds the class attribute
ClassAttribute == <<"class attribute">>

\* the class attributes PPTXFontStyle.language_id and PPTXFontStyle.name
PPTXFontStyle_language_id == MSO_LANGUAGE_ID("ENGLISH_UK")
PPTXFontStyle_name == Str("Roboto")

\* an attribute that holds an object or None is a sequence of at most one
\* record: NoObject is None
NoObject == <<>>
Object(r) == <<r>>

PPTXFontStyle_init ==
    [bold |-> None,
     italic |-> None,
     underline |-> None,
     language_id |-> ClassAttribute,
     name |-> ClassAttribute,
     size |-> None,
     color_rgb |-> None,
     fill_style |-> NoObject]

\* self.language_id
get_language_id(self) ==
    IF self.language_id = ClassAttribute
    THEN PPTXFontStyle_language_id
    ELSE self.language_id

\* self.name
get_name(self) ==
    IF self.name = ClassAttribute THEN PPTXFontStyle_name ELSE self.name

\* @color_rgb.setter
set_color_rgb(self, value) ==
    IF IsTuple(value)
    THEN [self EXCEPT !.color_rgb = RGBColorOfTuple(value)]
    ELSE [self EXCEPT !.color_rgb = value]

\* a pptx Font without any explicit setting
FreshFont ==
    [name |-> None,
     bold |-> None,
     italic |-> None,
     underline |-> None,
     language_id |-> MSO_LANGUAGE_ID("NONE"),
     size |-> None,
     fill |-> FreshFill]

\* read_font returns [self, err]; font.size.pt raises AttributeError when
\* font.size is None, after bold, italic and name were assigned
read_font(self, f) ==
    LET s1 == [self EXCEPT !.bold = f.bold, !.italic = f.italic, !.name = f.name]
    IN  IF f.size = None
        THEN [self |-> s1, err |-> AttributeError]
        ELSE [self |-> [s1 EXCEPT !.size = pt(f.size), !.underline = f.underline],
              err |-> None]

\* _get_write_value without the check for the sentinel
_get_write_value_unchecked(new_value, old_value) ==
    IF new_value = None THEN old_value ELSE new_value

_get_write_value(new_value, old_value) ==
    IF new_value = None THEN old_value
    ELSE IF new_value = _USE_DEFAULT THEN None
    ELSE new_value

\* font.color.rgb = value: Font.color is the fore_color of Font.fill, made
\* solid when it is not
write_color_rgb(t, value) ==
    assign(IF t.fill.type # <<"MSO_FILL_TYPE", "SOLID">> THEN solid(t) ELSE t,
           "fore_color", value)

\* the fill written before the color
write_font_fill_first(self, t) ==
    LET t1 == IF self.fill_style # NoObject
              THEN write_fill(self.fill_style[1], t)
              ELSE t
    IN  IF self.color_rgb # None THEN write_color_rgb(t1, self.color_rgb) ELSE t1

\* lines 95-99 of write_font: the color and the fill, on the step t
write_font_color(self, t) ==
    LET t1 == IF self.color_rgb # None
              THEN write_color_rgb(t, self.color_rgb)
              ELSE t
    IN  IF self.fill_style # NoObject
        THEN write_fill(self.fill_style[1], t1)
        ELSE t1

\* the attributes of the font, italic written with the style's bold
write_font_attributes_crossed(self, f) ==
    [f EXCEPT
       !.name = _get_write_value(get_name(self), f.name),
       !.bold = _get_write_value(self.bold, f.bold),
       !.italic = _get_write_value(self.bold, f.italic),
       !.underline = _get_write_value(self.underline, f.underline),
       !.language_id =
           IF get_language_id(self) = _USE_DEFAULT
           THEN MSO_LANGUAGE_ID("NONE")
           ELSE _get_write_value(get_language_id(self), f.language_id),
       !.size =
           IF self.size # None
           THEN IF self.size = _USE_DEFAULT THEN None ELSE Pt(self.size)
           ELSE f.size]

\* lines 79-93 of write_font: the attributes of the font
write_font_attributes(self, f) ==
    [f EXCEPT
       !.name = _get_write_value(get_name(self), f.name),
       !.bold = _get_write_value(self.bold, f.bold),
       !.italic = _get_write_value(self.italic, f.italic),
       !.underline = _get_write_value(self.underline, f.underline),
       !.language_id =
           IF get_language_id(self) = _USE_DEFAULT
           THEN MSO_LANGUAGE_ID("NONE")
           ELSE _get_write_value(get_language_id(self), f.language_id),
       !.size =
           IF self.size # None
           THEN IF self.size = _USE_DEFAULT THEN None ELSE Pt(self.size)
           ELSE f.size]

\* write_font returns [font, calls, err]
write_font(self, f) ==
    LET f1 == write_font_attributes(self, f)
        t  == write_font_color(self, [fill |-> f1.fill, calls |-> <<>>, err |-> None])
    IN  [font |-> [f1 EXCEPT !.fill = t.fill], calls |-> t.calls, err |-> t.err]

\* copy_font returns [font, calls, err]
copy_font(_from, _to) ==
    LET r == read_font(PPTXFontStyle_init, _from)
    IN  IF r.err # None
        THEN [font |-> _to, calls |-> <<>>, err |-> r.err]
        ELSE write_font(r.self, _to)

\* set taking None, too, for a parameter that was not passed
set_skipping_none(self, a) ==
    LET Passed(v) == v # _DO_NOT_CHANGE /\ v # None
        s1 == IF Passed(a.bold) THEN [self EXCEPT !.bold = a.bold] ELSE self
        s2 == IF Passed(a.italic) THEN [s1 EXCEPT !.italic = a.italic] ELSE s1
        s3 == IF Passed(a.language_id)
              THEN [s2 EXCEPT !.language_id = a.language_id] ELSE s2
        s4 == IF Passed(a.name) THEN [s3 EXCEPT !.name = a.name] ELSE s3
        s5 == IF Passed(a.size) THEN [s4 EXCEPT !.size = a.size] ELSE s4
        s6 == IF Passed(a.underline)
              THEN [s5 EXCEPT !.underline = a.underline] ELSE s5
    IN  IF Passed(a.color_rgb) THEN set_color_rgb(s6, a.color_rgb) ELSE s6

\* set(...): a is the record of the seven parameters
set(self, a) ==
    LET s1 == IF a.bold # _DO_NOT_CHANGE THEN [self EXCEPT !.bold = a.bold] ELSE self
        s2 == IF a.italic # _DO_NOT_CHANGE THEN [s1 EXCEPT !.italic = a.italic] ELSE s1
        s3 == IF a.language_id # _DO_NOT_CHANGE
              THEN [s2 EXCEPT !.language_id = a.language_id] ELSE s2
        s4 == IF a.name # _DO_NOT_CHANGE THEN [s3 EXCEPT !.name = a.name] ELSE s3
        s5 == IF a.size # _DO_NOT_CHANGE THEN [s4 EXCEPT !.size = a.size] ELSE s4
        s6 == IF a.underline # _DO_NOT_CHANGE
              THEN [s5 EXCEPT !.underline = a.underline] ELSE s5
    IN  IF a.color_rgb # _DO_NOT_CHANGE THEN set_color_rgb(s6, a.color_rgb) ELSE s6

\* a call of set passes nothing
NoArgs ==
    [bold |-> _DO_NOT_CHANGE, italic |-> _DO_NOT_CHANGE,
     language_id |-> _DO_NOT_CHANGE, name |-> _DO_NOT_CHANGE,
     size |-> _DO_NOT_CHANGE, underline |-> _DO_NOT_CHANGE,
     color_rgb |-> _DO_NOT_CHANGE]

---------------------------------------------------------------------------
(* The states the operations are applied in *)

OptionalOf(S) == {None} \cup S

\* the PPTXFillStyle objects the setters and the assignments of the public fields
\* produce: the fore color never holds both representations
FillStyles ==
    {f \in [fill_type : OptionalOf(FillType),
            fore_color_rgb : OptionalOf(RGBColors),
            fore_color_mso_theme : OptionalOf(ThemeColors),
            fore_color_brightness : OptionalOf(Brightnesses),
            back_color_rgb : OptionalOf(RGBColors),
            back_color_mso_theme : OptionalOf(ThemeColors),
            back_color_brightness : OptionalOf(Brightnesses),
            pattern : OptionalOf(Patterns)] :
        f.fore_color_rgb = None \/ f.fore_color_mso_theme = None}

SolidTarget ==
    [FreshFill EXCEPT !.type = <<"MSO_FILL_TYPE", "SOLID">>,
                      !.fore_color = RGBColor(1),
                      !.fore_brightness = Brightness(5)]

PatternedTarget ==
    [FreshFill EXCEPT !.type = <<"MSO_FILL_TYPE", "PATTERNED">>,
                      !.fore_color = ThemeColor(1),
                      !.back_color = RGBColor(1),
                      !.pattern = PatternType(2)]

TargetFills == {FreshFill, SolidTarget, PatternedTarget}

\* fonts that differ in their fill only
FillTargets == {[FreshFont EXCEPT !.fill = tf] : tf \in TargetFills}

StyleSizes == {PyInt(n) : n \in 1..MaxSize}

\* a font size that no style of the model holds: 1.13 pt
OddSize == Length(14351)

Snapshot == [fill |-> fill, style |-> style, font |-> font, op |-> op]

\* the state after the constructors
Constructed ==
    /\ fill = PPTXFillStyle_init
    /\ style = PPTXFontStyle_init
    /\ font = FreshFont
    /\ source = FreshFont
    /\ op = "init"
    /\ args = <<>>
    /\ err = None
    /\ calls = <<>>

---------------------------------------------------------------------------
(* PPTXFillStyle: the color setters *)

Init ==
    /\ Constructed
    /\ old = Snapshot

\* what every setter call records
Called(name, value) ==
    /\ old' = Snapshot
    /\ op' = name
    /\ args' = <<value>>
    /\ UNCHANGED <<style, font, source, err, calls>>

fore_color_rgb ==
    \E value \in OptionalOf(RGBColors \cup RGBTuples) :
        /\ fill' = set_fore_color_rgb(fill, value)
        /\ Called("fore_color_rgb", value)

fore_color_mso_theme ==
    \E value \in OptionalOf(ThemeColors) :
        /\ fill' = set_fore_color_mso_theme(fill, value)
        /\ Called("fore_color_mso_theme", value)

back_color_rgb ==
    \E value \in OptionalOf(RGBColors \cup RGBTuples) :
        /\ fill' = set_back_color_rgb(fill, value)
        /\ Called("back_color_rgb", value)

back_color_mso_theme ==
    \E value \in OptionalOf(ThemeColors) :
        /\ fill' = set_back_color_mso_theme(fill, value)
        /\ Called("back_color_mso_theme", value)

Next ==
    \/ fore_color_rgb
    \/ fore_color_mso_theme
    \/ back_color_rgb
    \/ back_color_mso_theme

Spec == Init /\ [][Next]_vars

---------------------------------------------------------------------------
(* PPTXFillStyle.write_fill, applied to every fill style and target *)

InitWriteFill ==
    /\ fill \in FillStyles
    /\ style = PPTXFontStyle_init
    /\ font \in FillTargets
    /\ source = FreshFont
    /\ op = "init"
    /\ args = <<>>
    /\ err = None
    /\ calls = <<>>
    /\ old = Snapshot

WriteFill ==
    /\ op = "init"
    /\ LET r == write_fill(fill, [fill |-> font.fill, calls |-> <<>>, err |-> None])
       IN  /\ font' = [font EXCEPT !.fill = r.fill]
           /\ calls' = r.calls
           /\ err' = r.err
    /\ old' = Snapshot
    /\ op' = "write_fill"
    /\ UNCHANGED <<fill, style, source, args>>

NextWriteFill == WriteFill
SpecWriteFill == InitWriteFill /\ [][NextWriteFill]_vars

---------------------------------------------------------------------------
(* Claims about the color setters, under Spec *)

IsSetter(names) == op \in names

\* C1: after any sequence of calls of the four color setters each color slot
\* holds at most one representation: never both fore rgb and fore theme, and
\* never both back rgb and back theme
C1_AtMostOneRepresentation ==
    /\ fill.fore_color_rgb = None \/ fill.fore_color_mso_theme = None
    /\ fill.back_color_rgb = None \/ fill.back_color_mso_theme = None

\* C2: a call of a back-color setter leaves both fore-color fields unchanged, and
\* a call of a fore-color setter leaves both back-color fields unchanged
C2_SlotsIndependent ==
    /\ IsSetter({"back_color_rgb", "back_color_mso_theme"}) =>
           /\ fill.fore_color_rgb = old.fill.fore_color_rgb
           /\ fill.fore_color_mso_theme = old.fill.fore_color_mso_theme
    /\ IsSetter({"fore_color_rgb", "fore_color_mso_theme"}) =>
           /\ fill.back_color_rgb = old.fill.back_color_rgb
           /\ fill.back_color_mso_theme = old.fill.back_color_mso_theme

---------------------------------------------------------------------------
(* Claims about write_fill, under SpecWriteFill *)

NoForeColor(f) == f.fore_color_rgb = None /\ f.fore_color_mso_theme = None
NoBackColor(f) == f.back_color_rgb = None /\ f.back_color_mso_theme = None
ForeColorOf(f) ==
    IF f.fore_color_rgb # None THEN f.fore_color_rgb ELSE f.fore_color_mso_theme
BackColorOf(f) ==
    IF f.back_color_rgb # None THEN f.back_color_rgb ELSE f.back_color_mso_theme

\* the fields the calls of the last operation assigned
Assigned == {calls[i][1] : i \in 1..Len(calls)}
Made(call) == \E i \in 1..Len(calls) : calls[i] = call

WrotePatterned == op = "write_fill" /\ fill.fill_type = PATTERNED

\* C7 as stated: write_fill with PATTERNED on a style with a color slot that has
\* neither representation raises the "no valid color" error
C7_UnsetColorRaises ==
    WrotePatterned /\ (NoForeColor(fill) \/ NoBackColor(fill)) => err = ValueError

\* C7, amended: write_fill with PATTERNED on a style with a color slot that has
\* neither representation does not raise; it makes no call for that color or its
\* brightness, and still marks the target patterned and writes the pattern and
\* the other color when they are set
C7_UnsetColorSkipped ==
    WrotePatterned /\ (NoForeColor(fill) \/ NoBackColor(fill)) =>
        /\ err = None
        /\ calls # <<>> /\ calls[1] = <<"patterned">>
        /\ NoForeColor(fill) => Assigned \cap {"fore_color", "fore_brightness"} = {}
        /\ NoBackColor(fill) => Assigned \cap {"back_color", "back_brightness"} = {}
        /\ fill.pattern # None => Made(<<"pattern", fill.pattern>>)
        /\ ~NoForeColor(fill) => Made(<<"fore_color", ForeColorOf(fill)>>)
        /\ ~NoBackColor(fill) => Made(<<"back_color", BackColorOf(fill)>>)

\* a patterned write with no fore color, but a back color and a pattern
C7_Witness ==
    /\ WrotePatterned
    /\ NoForeColor(fill) /\ ~NoBackColor(fill) /\ fill.pattern # None
    /\ old.font.fill.fore_color # None
    /\ Len(calls) >= 3

WroteSolidWithoutFore ==
    op = "write_fill" /\ fill.fill_type = SOLID /\ NoForeColor(fill)

\* C8: write_fill with SOLID on a style without fore color makes no write to the
\* target fill and does not raise, whatever the back color, the brightnesses
\* and the pattern of the style
C8_SolidWithoutForeWritesNothing ==
    WroteSolidWithoutFore =>
        /\ calls = <<>>
        /\ font.fill = old.font.fill
        /\ err = None

\* a solid write without fore color on a style with everything else set, to a
\* target that has a fill
C8_Witness ==
    /\ WroteSolidWithoutFore
    /\ ~NoBackColor(fill)
    /\ Truthy(fill.fore_color_brightness) /\ Truthy(fill.back_color_brightness)
    /\ fill.pattern # None
    /\ font.fill.type # None

---------------------------------------------------------------------------
(* PPTXFontStyle: the states the operations are applied in *)

MSO_TEXT_UNDERLINE_TYPE(m) == <<"MSO_TEXT_UNDERLINE_TYPE", m>>

\* a fill style with a fore color
RedFill == Object(set_fore_color_rgb(PPTXFillStyle_init, RGBColor(MaxColor)))

\* target fonts: every attribute either without or with an explicit setting
WriteFontTargets ==
    [name : {None, Str("Calibri")},
     bold : {None, False},
     italic : {None, True},
     underline : {None, False},
     language_id : {MSO_LANGUAGE_ID("NONE"), MSO_LANGUAGE_ID("FRENCH")},
     size : {None, OddSize},
     fill : {SolidTarget}]

\* styles: every attribute unset, the sentinel, or a value; name and language_id
\* also left to the class attribute
WriteFontStyles ==
    {s \in [bold : {None, _USE_DEFAULT, True},
           italic : {None, _USE_DEFAULT, False},
           underline : {None, _USE_DEFAULT, MSO_TEXT_UNDERLINE_TYPE("DOUBLE_LINE")},
           language_id : {ClassAttribute, None, _USE_DEFAULT, MSO_LANGUAGE_ID("GERMAN")},
           name : {ClassAttribute, None, _USE_DEFAULT, Str("Arial")},
           size : {None, _USE_DEFAULT} \cup StyleSizes,
           color_rgb : {None, RGBColor(1)},
           fill_style : {NoObject, RedFill}] :
        s.fill_style = NoObject \/ s.color_rgb # None}

\* styles: every attribute unset or configured
SetWriteStyles ==
    [bold : {None, False},
     italic : {None, True},
     underline : {None, True},
     language_id : {ClassAttribute, None, MSO_LANGUAGE_ID("GERMAN")},
     name : {ClassAttribute, None, Str("Arial")},
     size : {None, PyInt(1)},
     color_rgb : {None, RGBColor(1)},
     fill_style : {NoObject, RedFill}]

\* styles that differ in color_rgb and fill_style only
ColorStyles ==
    {[PPTXFontStyle_init EXCEPT !.color_rgb = c, !.fill_style = f] :
        c \in OptionalOf(RGBColors),
        f \in {NoObject} \cup {Object(fs) : fs \in FillStyles}}

\* the fonts copy_font and read_font are applied to
CopyFonts ==
    [name : {None, Str("Arial")},
     bold : {None, True},
     italic : {None, False},
     underline : {None, True},
     language_id : {MSO_LANGUAGE_ID("NONE"), MSO_LANGUAGE_ID("GERMAN")},
     size : {None, OddSize} \cup {Pt(p) : p \in StyleSizes},
     fill : {FreshFill, SolidTarget}]

\* a style with every attribute configured
ConfiguredStyle ==
    [bold |-> False,
     italic |-> True,
     underline |-> False,
     language_id |-> MSO_LANGUAGE_ID("FRENCH"),
     name |-> Str("Calibri"),
     size |-> PyInt(MaxSize),
     color_rgb |-> RGBColor(MaxColor),
     fill_style |-> RedFill]

SetStyles ==
    {PPTXFontStyle_init,
     ConfiguredStyle,
     [ConfiguredStyle EXCEPT !.bold = None, !.size = _USE_DEFAULT,
                             !.fill_style = NoObject]}

\* the arguments of a call of set: each parameter not passed, None, or a value
SetArgs ==
    [bold : {_DO_NOT_CHANGE, None, True},
     italic : {_DO_NOT_CHANGE, None, False},
     language_id : {_DO_NOT_CHANGE, None, MSO_LANGUAGE_ID("GERMAN")},
     name : {_DO_NOT_CHANGE, None, Str("Arial")},
     size : {_DO_NOT_CHANGE, None} \cup StyleSizes,
     underline : {_DO_NOT_CHANGE, None, True},
     color_rgb : {_DO_NOT_CHANGE, None} \cup RGBColors \cup RGBTuples]

InitFont(styles, fonts, sources) ==
    /\ fill = PPTXFillStyle_init
    /\ style \in styles
    /\ font \in fonts
    /\ source \in sources
    /\ op = "init"
    /\ args = <<>>
    /\ err = None
    /\ calls = <<>>
    /\ old = Snapshot

---------------------------------------------------------------------------
(* PPTXFontStyle: the operations *)

DoSet(a) ==
    /\ style' = set(style, a)
    /\ args' = <<a>>
    /\ old' = Snapshot
    /\ op' = "set"
    /\ UNCHANGED <<fill, font, source, err, calls>>

\* style.set(...)
Set ==
    /\ op = "init"
    /\ \E a \in SetArgs : DoSet(a)

\* style.set(bold=True)
SetBold ==
    /\ op = "init"
    /\ DoSet([NoArgs EXCEPT !.bold = True])

DoWriteFont ==
    /\ LET r == write_font(style, font)
       IN  /\ font' = r.font
           /\ calls' = r.calls
           /\ err' = r.err
    /\ old' = Snapshot
    /\ op' = "write_font"
    /\ UNCHANGED <<fill, style, source, args>>

\* style.write_font(font)
WriteFont ==
    /\ op = "init"
    /\ DoWriteFont

\* style.set(bold=True) followed by style.write_font(font)
WriteFontAfterSet ==
    /\ op = "set"
    /\ DoWriteFont

\* style.read_font(font)
ReadFont ==
    /\ op = "init"
    /\ LET r == read_font(style, font)
       IN  /\ style' = r.self
           /\ err' = r.err
    /\ old' = Snapshot
    /\ op' = "read_font"
    /\ UNCHANGED <<fill, font, source, args, calls>>

\* style.read_font(font) followed by style.write_font(font), when read_font
\* returned
WriteFontAfterRead ==
    /\ op = "read_font"
    /\ err = None
    /\ DoWriteFont

\* PPTXFontStyle.copy_font(source, font)
CopyFont ==
    /\ op = "init"
    /\ LET r == copy_font(source, font)
       IN  /\ font' = r.font
           /\ calls' = r.calls
           /\ err' = r.err
    /\ old' = Snapshot
    /\ op' = "copy_font"
    /\ UNCHANGED <<fill, style, source, args>>

InitSet == InitFont(SetStyles, {FreshFont}, {FreshFont})
NextSet == Set
\* set, applied to every call
SpecSet == InitSet /\ [][NextSet]_vars

InitWriteFont == InitFont(WriteFontStyles, WriteFontTargets, {FreshFont})
NextWriteFont == WriteFont
\* write_font, applied to every style and target
SpecWriteFont == InitWriteFont /\ [][NextWriteFont]_vars

InitSetWrite == InitFont(SetWriteStyles, WriteFontTargets, {FreshFont})
NextSetWrite == SetBold \/ WriteFontAfterSet
\* set(bold=True), then write_font
SpecSetWrite == InitSetWrite /\ [][NextSetWrite]_vars

InitColor == InitFont(ColorStyles, FillTargets, {FreshFont})
\* write_font of the color and the fill
SpecColor == InitColor /\ [][NextWriteFont]_vars

InitCopy == InitFont({PPTXFontStyle_init}, CopyFonts, CopyFonts)
NextCopy == CopyFont \/ ReadFont \/ WriteFontAfterRead
\* copy_font, and read_font followed by write_font
SpecCopy == InitCopy /\ [][NextCopy]_vars

---------------------------------------------------------------------------
(* Claims about write_font, under SpecWriteFont *)

\* the value the merge policy writes: the old value for None, the default for
\* the sentinel, the style's value otherwise
ThreeWay(new, was, default) ==
    IF new = None THEN was
    ELSE IF new = _USE_DEFAULT THEN default
    ELSE new

\* C3: write_font follows the three-way merge policy for every attribute and
\* every old value of the target: bold, italic, underline, name and size keep
\* the old value when the style's value is None, become None when it is the
\* sentinel and become the style's value otherwise (the size converted from
\* points by Pt); language_id likewise, the sentinel writing MSO_LANGUAGE_ID.NONE
C3_MergePolicy ==
    op = "write_font" =>
        /\ font.bold = ThreeWay(style.bold, old.font.bold, None)
        /\ font.italic = ThreeWay(style.italic, old.font.italic, None)
        /\ font.underline = ThreeWay(style.underline, old.font.underline, None)
        /\ font.name = ThreeWay(get_name(style), old.font.name, None)
        /\ font.size =
               IF style.size \in {None, _USE_DEFAULT}
               THEN ThreeWay(style.size, old.font.size, None)
               ELSE Length(style.size[2] * EMUS_PER_PT)
        /\ font.language_id =
               ThreeWay(get_language_id(style), old.font.language_id,
                        MSO_LANGUAGE_ID("NONE"))

\* a write in which the three cases happen on a target with explicit settings
C3_Witness ==
    /\ op = "write_font"
    /\ style.bold = _USE_DEFAULT /\ old.font.bold = False /\ font.bold = None
    /\ style.italic = None /\ old.font.italic = True /\ font.italic = True
    /\ style.underline = MSO_TEXT_UNDERLINE_TYPE("DOUBLE_LINE")
    /\ old.font.underline = False
    /\ style.name = _USE_DEFAULT /\ old.font.name = Str("Calibri")
    /\ style.size = PyInt(MaxSize) /\ old.font.size = OddSize
    /\ style.language_id = _USE_DEFAULT
    /\ old.font.language_id = MSO_LANGUAGE_ID("FRENCH")
    /\ font.language_id = MSO_LANGUAGE_ID("NONE")

---------------------------------------------------------------------------
(* Claims about set(bold=True) followed by write_font, under SpecSetWrite *)

WroteAfterSetBold ==
    /\ op = "write_font"
    /\ old.op = "set"
    /\ args = <<[NoArgs EXCEPT !.bold = True]>>

\* italic, underline, size, color and fill of the target are as before when the
\* style is not configured with them
UnconfiguredUnchanged ==
    /\ style.italic = None => font.italic = old.font.italic
    /\ style.underline = None => font.underline = old.font.underline
    /\ style.size = None => font.size = old.font.size
    /\ style.color_rgb = None /\ style.fill_style = NoObject =>
           font.fill = old.font.fill

\* C5 as stated: set(bold=True) followed by write_font changes only bold: every
\* other attribute the style has not been configured with, name and language_id
\* among them, is as before
C5_OnlyBoldChanges ==
    WroteAfterSetBold =>
        /\ font.bold = True
        /\ UnconfiguredUnchanged
        /\ style.name \in {None, ClassAttribute} => font.name = old.font.name
        /\ style.language_id \in {None, ClassAttribute} =>
               font.language_id = old.font.language_id

\* C5, amended: set(bold=True) followed by write_font sets bold and leaves
\* italic, underline, size, color and fill as before when the style is not
\* configured with them; name and language_id are as before only when the
\* style's attribute is None: a style that never assigned them writes the class
\* attributes, name "Roboto" and language_id ENGLISH_UK
C5_OnlyBoldAndClassDefaultsChange ==
    WroteAfterSetBold =>
        /\ font.bold = True
        /\ UnconfiguredUnchanged
        /\ style.name = None => font.name = old.font.name
        /\ style.language_id = None => font.language_id = old.font.language_id
        /\ style.name = ClassAttribute => font.name = Str("Roboto")
        /\ style.language_id = ClassAttribute =>
               font.language_id = MSO_LANGUAGE_ID("ENGLISH_UK")

\* set(bold=True) on a new style, written to a target with explicit settings
C5_Witness ==
    /\ WroteAfterSetBold
    /\ style = [PPTXFontStyle_init EXCEPT !.bold = True]
    /\ old.font.bold = False /\ font.bold = True
    /\ old.font.italic = True /\ old.font.underline = False
    /\ old.font.size = OddSize
    /\ old.font.name = Str("Calibri") /\ font.name = Str("Roboto")
    /\ old.font.language_id = MSO_LANGUAGE_ID("FRENCH")

---------------------------------------------------------------------------
(* Claims about set, under SpecSet *)

\* what set stores for a passed color_rgb
StoredColor(v) == IF v[1] = "tuple" THEN RGBColor(v[2]) ELSE v

\* C9: set updates exactly the attributes that were passed, None included, and
\* leaves every attribute that was not passed, and fill_style, unchanged
C9_SetUpdatesExactlyPassed ==
    op = "set" =>
        LET a == args[1] IN
        /\ \A k \in {"bold", "italic", "language_id", "name", "size", "underline"} :
               style[k] = IF a[k] = _DO_NOT_CHANGE THEN old.style[k] ELSE a[k]
        /\ style.color_rgb =
               IF a.color_rgb = _DO_NOT_CHANGE
               THEN old.style.color_rgb
               ELSE StoredColor(a.color_rgb)
        /\ style.fill_style = old.style.fill_style

\* a call that passes None for configured attributes and leaves others out
C9_Witness ==
    /\ op = "set"
    /\ old.style = ConfiguredStyle
    /\ args[1].bold = None /\ style.bold = None
    /\ args[1].name = None /\ style.name = None
    /\ args[1].color_rgb = None /\ style.color_rgb = None
    /\ args[1].italic = _DO_NOT_CHANGE /\ style.italic = True
    /\ args[1].size = PyInt(1) /\ style.size = PyInt(1)
    /\ style.fill_style = RedFill

---------------------------------------------------------------------------
(* Claims about the order of the color and the fill in write_font, under   *)
(* SpecColor                                                               *)

WritesFore(fs) == fs.fill_type \in {SOLID, PATTERNED} /\ ~NoForeColor(fs)
WritesNothing(fs) ==
    \/ fs.fill_type \in {None, GRADIENT}
    \/ fs.fill_type = SOLID /\ NoForeColor(fs)

\* C10: in write_font the color_rgb write happens before the fill_style write:
\* with color_rgb set and a fill_style that writes a fore color, the target's
\* color is the fill_style's fore color, written after color_rgb; with no
\* fill_style, or one that writes nothing, it is color_rgb
C10_FillWrittenAfterColor ==
    op = "write_font" /\ style.color_rgb # None =>
        \E i \in 1..Len(calls) :
            /\ calls[i] = <<"fore_color", style.color_rgb>>
            /\ IF style.fill_style = NoObject
               THEN font.fill.fore_color = style.color_rgb
               ELSE LET fs == style.fill_style[1] IN
                    /\ WritesFore(fs) =>
                           /\ font.fill.fore_color = ForeColorOf(fs)
                           /\ \E j \in (i + 1)..Len(calls) :
                                  calls[j] = <<"fore_color", ForeColorOf(fs)>>
                    /\ WritesNothing(fs) => font.fill.fore_color = style.color_rgb

\* a patterned fill style with a theme fore color, on a style with color_rgb
C10_Witness ==
    /\ op = "write_font"
    /\ style.color_rgb = RGBColor(1)
    /\ style.fill_style # NoObject
    /\ style.fill_style[1].fill_type = PATTERNED
    /\ style.fill_style[1].fore_color_mso_theme = ThemeColor(MaxColor)
    /\ font.fill.fore_color = ThemeColor(MaxColor)
    /\ old.font.fill = SolidTarget

---------------------------------------------------------------------------
(* Claims about copy_font and the round trip, under SpecCopy *)

SameFive(f, g) ==
    /\ f.bold = g.bold
    /\ f.italic = g.italic
    /\ f.name = g.name
    /\ f.size = g.size
    /\ f.underline = g.underline

\* C4: copy_font(source, dest) reproduces bold, italic, name, size and underline
\* of the source on the dest for every combination of their values, and does
\* not touch the dest's color or fill
C4_CopyReproduces ==
    op = "copy_font" =>
        /\ err = None
        /\ SameFive(font, source)
        /\ font.fill = old.font.fill

\* C6: for every font, read_font(font) followed by write_font(font) completes
\* and leaves bold, italic, name, size and underline as they were
C6_ReadWriteRoundTrip ==
    /\ op = "read_font" => err = None
    /\ op = "write_font" /\ old.op = "read_font" => SameFive(font, old.font)

=============================================================================
